---- MODULE Spec2Model ----
(***************************************************************************)
(* A model of the software rasterizer of src/vector_renderer.cpp: the      *)
(* float colour type and its conversions, blend, Gradient (addStop and     *)
(* getColorAt) and the scanline polygon fill drawPolygon.                  *)
(*                                                                         *)
(* Numbers.  A float is modelled as an exact rational <<n, d>> with        *)
(* d >= 0; <<0, 0>> is NaN and <<n, 0>> with n # 0 is the infinity of n's  *)
(* sign, so that a division by zero yields what IEEE-754 yields.  Point    *)
(* coordinates are kept in half pixels (an integer h stands for the float  *)
(* h/2), which makes fractional vertices and the truncation (int)f         *)
(* visible.  sqrt is a fixed-point square root to 1/SqrtScale.             *)
(***************************************************************************)
EXTENDS Integers, Sequences, FiniteSets, Bags, TLC

(***************************************************************************)
(* Bounds of the model.                                                    *)
(***************************************************************************)
Width == 3
Height == 2
MaxVerts == 4
MaxStops == 3
MaxSide == 3
SqrtScale == 4

(***************************************************************************)
(* Floats as rationals <<n, d>>, d >= 0.  <<0, 0>> is NaN and <<n, 0>> with *)
(* n # 0 is the infinity of n's sign.                                      *)
(***************************************************************************)
\* Op(v) with v evaluated once
With(v, Op(_)) == CHOOSE r \in {Op(x) : x \in {v}} : TRUE

Abs(n) == IF n < 0 THEN -n ELSE n

RECURSIVE Gcd(_, _)
Gcd(a, b) == IF b = 0 THEN a ELSE Gcd(b, a % b)

NaN == <<0, 0>>
IsNaN(a) == a[1] = 0 /\ a[2] = 0

\* the same number in lowest terms (infinities as <<1, 0>> and <<-1, 0>>)
Norm(a) ==
  IF a[2] = 1 THEN a
  ELSE With(Gcd(Abs(a[1]), a[2]),
            LAMBDA g : IF g = 0 THEN a ELSE <<a[1] \div g, a[2] \div g>>)

F(n) == <<n, 1>>

FAdd(a, b) ==
  IF a[2] = 0 /\ b[2] = 0 /\ a[1] * b[1] > 0 THEN a
  ELSE <<a[1] * b[2] + b[1] * a[2], a[2] * b[2]>>
FNeg(a) == <<-a[1], a[2]>>
FSub(a, b) == FAdd(a, FNeg(b))
FMul(a, b) == <<a[1] * b[1], a[2] * b[2]>>
\* IEEE division: x/0 is an infinity, 0/0 and inf/inf are NaN, x/inf is 0
FDiv(a, b) ==
  IF b[1] < 0 THEN <<-(a[1] * b[2]), -(a[2] * b[1])>>
  ELSE <<a[1] * b[2], a[2] * b[1]>>
\* every comparison with NaN is false
FLt(a, b) == ~IsNaN(a) /\ ~IsNaN(b) /\ a[1] * b[2] < b[1] * a[2]
FLe(a, b) == ~IsNaN(a) /\ ~IsNaN(b) /\ a[1] * b[2] <= b[1] * a[2]
FGt(a, b) == FLt(b, a)
FGe(a, b) == FLe(b, a)
FEq(a, b) == ~IsNaN(a) /\ ~IsNaN(b) /\ a[1] * b[2] = b[1] * a[2]
FAbs(a) == <<Abs(a[1]), a[2]>>

\* (int)f and (Byte)f of a finite float: truncation toward zero
Trunc(a) == IF a[1] >= 0 THEN a[1] \div a[2] ELSE -((-a[1]) \div a[2])

RECURSIVE ISqrt(_, _)
ISqrt(n, r) == IF (r + 1) * (r + 1) > n THEN r ELSE ISqrt(n, r + 1)
\* sqrt of a non-negative finite float, to 1/SqrtScale
FSqrt(a) == <<ISqrt((a[1] * SqrtScale * SqrtScale) \div a[2], 0), SqrtScale>>

clamp_float(val, minVal, maxVal) ==
  IF FLt(val, minVal) THEN minVal
  ELSE IF FGt(val, maxVal) THEN maxVal
  ELSE val

(***************************************************************************)
(* ColorF, RGBA and the conversions between them.                          *)
(***************************************************************************)
ColorF(r, g, b, a) == [r |-> r, g |-> g, b |-> b, a |-> a]
RGBA(r, g, b, a) == <<r, g, b, a>>

ToByte(c) == Trunc(clamp_float(FMul(c, F(255)), F(0), F(255)))
toRGBA(c) == RGBA(ToByte(c.r), ToByte(c.g), ToByte(c.b), ToByte(c.a))
fromRGBA(p) == ColorF(<<p[1], 255>>, <<p[2], 255>>, <<p[3], 255>>, <<p[4], 255>>)

(***************************************************************************)
(* blend                                                                   *)
(***************************************************************************)
BLEND_NORMAL == 0
BLEND_MULTIPLY == 1
BLEND_ADD == 2
BLEND_DIFFERENCE == 3
BLEND_OVERLAY == 4
BlendModes == BLEND_NORMAL..BLEND_OVERLAY

overlay_channel(s, d) ==
  IF FLt(d, <<1, 2>>) THEN FMul(FMul(F(2), s), d)
  ELSE FSub(F(1), FMul(FMul(F(2), FSub(F(1), s)), FSub(F(1), d)))

BlendChannelAlwaysMultiply(s, d, mode) == FMul(s, d)

BlendChannel(s, d, mode) ==
  IF mode = BLEND_NORMAL THEN s
  ELSE IF mode = BLEND_MULTIPLY THEN FMul(s, d)
  ELSE IF mode = BLEND_ADD THEN clamp_float(FAdd(s, d), F(0), F(1))
  ELSE IF mode = BLEND_DIFFERENCE THEN FAbs(FSub(d, s))
  ELSE IF mode = BLEND_OVERLAY THEN overlay_channel(s, d)
  ELSE d

\* r * alpha + dest.r * invAlpha
Composite(v, d, alpha) ==
  Norm(FAdd(FMul(Norm(v), alpha), FMul(d, FSub(F(1), alpha))))

blend(src, dest, mode) ==
  ColorF(Composite(BlendChannel(src.r, dest.r, mode), dest.r, src.a),
         Composite(BlendChannel(src.g, dest.g, mode), dest.g, src.a),
         Composite(BlendChannel(src.b, dest.b, mode), dest.b, src.a),
         F(1))

(***************************************************************************)
(* Gradient: a stop is [position, color]; a gradient is                    *)
(* [isRadial, p1, p2, radius] together with its stops.                     *)
(***************************************************************************)
GradientStop(pos, col) == [position |-> pos, color |-> col]

compareStops(a, b) == FLt(a.position, b.position)

IsSortedStops(s) ==
  \A i \in 1..(Len(s) - 1) : ~compareStops(s[i + 1], s[i])

IndexPerms(n) == {p \in [1..n -> 1..n] : \A i, j \in 1..n : i # j => p[i] # p[j]}

SortOutcomesUnsorted(s) == {s}

\* std::sort(stops.begin(), stops.end(), compareStops) is not a stable sort:
\* every ordering of the elements that compareStops finds sorted is an outcome
SortOutcomes(s) ==
  {t \in {[i \in 1..Len(s) |-> s[p[i]]] : p \in IndexPerms(Len(s))} :
     IsSortedStops(t)}

\* the stops lists that stops.push_back({pos, col}) followed by the sort can leave
addStop(stops, pos, col) == SortOutcomes(Append(stops, GradientStop(pos, col)))

Lerp(c1, c2, f) == Norm(FAdd(c1, FMul(FSub(c2, c1), f)))

InterpFractionNoDivide(t, t0, t1) == Norm(FSub(t, t0))

InterpFraction(t, t0, t1) == Norm(FDiv(FSub(t, t0), FSub(t1, t0)))

\* the first i >= lo with stops[i].position <= t <= stops[i+1].position, or 0
RECURSIVE FindSegment(_, _, _)
FindSegment(stops, t, i) ==
  IF i > Len(stops) - 1 THEN 0
  ELSE IF FGe(t, stops[i].position) /\ FLe(t, stops[i + 1].position) THEN i
  ELSE FindSegment(stops, t, i + 1)

Interpolate(s0, s1, f) ==
  ColorF(Lerp(s0.color.r, s1.color.r, f), Lerp(s0.color.g, s1.color.g, f),
         Lerp(s0.color.b, s1.color.b, f), Lerp(s0.color.a, s1.color.a, f))

getColorAt(stops, t) ==
  IF Len(stops) = 0 THEN ColorF(F(0), F(0), F(0), F(1))
  ELSE IF FLe(t, stops[1].position) THEN stops[1].color
  ELSE IF FGe(t, stops[Len(stops)].position) THEN stops[Len(stops)].color
  ELSE With(FindSegment(stops, t, 1),
         LAMBDA i :
           IF i = 0 THEN stops[Len(stops)].color
           ELSE With(InterpFraction(t, stops[i].position, stops[i + 1].position),
                     LAMBDA f : Interpolate(stops[i], stops[i + 1], f)))

(***************************************************************************)
(* drawPolygon.  A point is <<xh, yh>> in half pixels.                     *)
(***************************************************************************)
Coord(h) == <<h, 2>>
\* (int) of the float h/2
IntOf(h) == IF h >= 0 THEN h \div 2 ELSE -((-h) \div 2)

MinVerts == 3

TooFewVerticesFewerThanTwo(vertices) == Len(vertices) < 2

TooFewVertices(vertices) == Len(vertices) < MinVerts

\* the Edge of points a and b once oriented so that p1.y <= p2.y
OrientedEdge(p1, p2) ==
  [yMin |-> IntOf(p1[2]), yMax |-> IntOf(p2[2]), x |-> Coord(p1[1]),
   mInv |-> FDiv(FSub(Coord(p2[1]), Coord(p1[1])), FSub(Coord(p2[2]), Coord(p1[2])))]

Successor(vertices, i) == vertices[(i % Len(vertices)) + 1]

EdgeOf(vertices, i) ==
  IF vertices[i][2] > Successor(vertices, i)[2]
  THEN OrientedEdge(Successor(vertices, i), vertices[i])
  ELSE OrientedEdge(vertices[i], Successor(vertices, i))

\* (int)p1.y == (int)p2.y
IsHorizontal(vertices, i) == IntOf(vertices[i][2]) = IntOf(Successor(vertices, i)[2])

OutsideCanvasByYMin(e) == e.yMin <= 0 \/ e.yMin >= Height

OutsideCanvas(e) == e.yMax <= 0 \/ e.yMin >= Height

\* the edge table: the edges of the vertex pairs in order, without the
\* horizontal ones and those outside [0, height)
BuildEdges(vertices) ==
  SelectSeq([i \in 1..Len(vertices) |->
               IF IsHorizontal(vertices, i) THEN [yMin |-> 0, yMax |-> 0]
               ELSE EdgeOf(vertices, i)],
            LAMBDA e : e.yMin # e.yMax /\ ~OutsideCanvas(e))

RECURSIVE SeqMin(_, _, _)
SeqMin(edges, i, acc) ==
  IF i > Len(edges) THEN acc
  ELSE SeqMin(edges, i + 1, IF edges[i].yMin < acc THEN edges[i].yMin ELSE acc)

RECURSIVE SeqMax(_, _, _)
SeqMax(edges, i, acc) ==
  IF i > Len(edges) THEN acc
  ELSE SeqMax(edges, i + 1, IF edges[i].yMax > acc THEN edges[i].yMax ELSE acc)

\* the clamped scanline range [globalMinY, globalMaxY)
GlobalMinY(edges) == With(SeqMin(edges, 1, Height), LAMBDA m : IF m < 0 THEN 0 ELSE m)
GlobalMaxY(edges) ==
  With(SeqMax(edges, 1, 0), LAMBDA m : IF m > Height THEN Height ELSE m)

EdgeActiveClosed(e, y) == y >= e.yMin /\ y <= e.yMax

EdgeActive(e, y) == y >= e.yMin /\ y < e.yMax

IntersectX(e, y) == FAdd(e.x, FMul(e.mInv, F(y - e.yMin)))

RECURSIVE CollectNodes(_, _, _)
CollectNodes(edges, y, i) ==
  IF i > Len(edges) THEN <<>>
  ELSE IF EdgeActive(edges[i], y)
       THEN <<IntersectX(edges[i], y)>> \o CollectNodes(edges, y, i + 1)
       ELSE CollectNodes(edges, y, i + 1)

\* the sorted x intersections of scanline y
Nodes(edges, y) == SortSeq(CollectNodes(edges, y, 1), LAMBDA a, b : FLt(a, b))

\* <<y, nodes>> of every scanline of the y loop, in order
RECURSIVE Scanlines(_, _, _)
Scanlines(edges, y, yEnd) ==
  IF y >= yEnd THEN <<>>
  ELSE <<<<y, Nodes(edges, y)>>>> \o Scanlines(edges, y + 1, yEnd)

SpanColumnsDescending(startX, endX) ==
  [k \in 1..(endX - startX) |-> endX - k]

SpanColumnsInclusive(startX, endX) ==
  [k \in 1..(endX - startX + 1) |-> startX + k - 1]

\* for (int x = startX; x < endX; x++)
SpanColumns(startX, endX) ==
  [k \in 1..(endX - startX) |-> startX + k - 1]

ClampSpanUnclamped(startX, endX) == SpanColumns(startX, endX)

\* the columns of one span after the skip and clamp tests
ClampSpan(startX, endX) ==
  IF startX >= Width THEN <<>>
  ELSE IF endX <= 0 THEN <<>>
  ELSE SpanColumns(IF startX < 0 THEN 0 ELSE startX,
                   IF endX > Width THEN Width ELSE endX)

\* the pixels <<x, y, span>> of one scanline in the order the loops visit them;
\* i is the 0-based index of the span's first node
RECURSIVE ScanlinePixels(_, _, _)
ScanlinePixels(nodes, y, i) ==
  IF i + 1 >= Len(nodes) THEN <<>>
  ELSE With(ClampSpan(Trunc(nodes[i + 1]), Trunc(nodes[i + 2])),
            LAMBDA cols : [k \in 1..Len(cols) |-> <<cols[k], y, (i \div 2) + 1>>])
       \o ScanlinePixels(nodes, y, i + 2)

RECURSIVE PolygonPixels(_, _)
PolygonPixels(rows, k) ==
  IF k > Len(rows) THEN <<>>
  ELSE ScanlinePixels(rows[k][2], rows[k][1], 0) \o PolygonPixels(rows, k + 1)

\* the divisor of the division that computes t: radius, or lenSq
GradDivisor(g) ==
  IF g.isRadial THEN g.radius
  ELSE FAdd(FMul(FSub(Coord(g.p2[1]), Coord(g.p1[1])),
                 FSub(Coord(g.p2[1]), Coord(g.p1[1]))),
            FMul(FSub(Coord(g.p2[2]), Coord(g.p1[2])),
                 FSub(Coord(g.p2[2]), Coord(g.p1[2]))))

RadialParam(g, pdx, pdy) ==
  FDiv(FSqrt(FAdd(FMul(pdx, pdx), FMul(pdy, pdy))), GradDivisor(g))

LinearParam(g, pdx, pdy) ==
  FDiv(FAdd(FMul(pdx, FSub(Coord(g.p2[1]), Coord(g.p1[1]))),
            FMul(pdy, FSub(Coord(g.p2[2]), Coord(g.p1[2])))),
       GradDivisor(g))

\* t at pixel (x, y), after clamp_float(t, 0, 1)
GradParam(g, x, y) ==
  With(Norm(IF g.isRadial
            THEN RadialParam(g, FSub(F(x), Coord(g.p1[1])), FSub(F(y), Coord(g.p1[2])))
            ELSE LinearParam(g, FSub(F(x), Coord(g.p1[1])), FSub(F(y), Coord(g.p1[2])))),
       LAMBDA t : clamp_float(t, F(0), F(1)))

\* a paint is [color, gradOn, grad, stops, mode]; gradOn is grad != nullptr
DrawColor(paint, x, y) ==
  IF paint.gradOn
  THEN With(GradParam(paint.grad, x, y), LAMBDA t : getColorAt(paint.stops, t))
  ELSE paint.color

\* the body of the x loop: the pixel value written over value v at (x, y)
PixelOp(v, x, y, paint) ==
  With(DrawColor(paint, x, y),
       LAMBDA drawColor :
         With(fromRGBA(v),
              LAMBDA bgColor : toRGBA(blend(drawColor, bgColor, paint.mode))))

\* v after the x loop body ran n times at (x, y)
RECURSIVE PixelOpTimes(_, _, _, _, _)
PixelOpTimes(v, n, x, y, paint) ==
  IF n = 0 THEN v ELSE PixelOpTimes(PixelOp(v, x, y, paint), n - 1, x, y, paint)

InCanvas(x, y) == 0 <= x /\ x < Width /\ 0 <= y /\ y < Height
Pixels == {<<x, y>> : x \in 0..(Width - 1), y \in 0..(Height - 1)}

Visits(pixels, p) ==
  Cardinality({k \in 1..Len(pixels) : pixels[k][1] = p[1] /\ pixels[k][2] = p[2]})

\* the image after the loops visited `pixels` in order: the value written at a
\* pixel depends on that pixel alone, so each pixel goes through the loop body
\* as many times as it is visited
ApplyPixels(img, pixels, paint) ==
  [p \in Pixels |-> PixelOpTimes(img[p], Visits(pixels, p), p[1], p[2], paint)]

NoDraw(img) ==
  [image |-> img, reads |-> <<>>, writes |-> <<>>, nodeCounts |-> <<>>,
   divZero |-> FALSE]

DrawRows(img, rows, paint) ==
  With(PolygonPixels(rows, 1),
       LAMBDA pixels :
         [image      |-> ApplyPixels(img, pixels, paint),
          reads      |-> [k \in 1..Len(pixels) |-> <<pixels[k][1], pixels[k][2]>>],
          writes     |-> pixels,
          nodeCounts |-> [k \in 1..Len(rows) |-> <<rows[k][1], Len(rows[k][2])>>],
          divZero    |-> paint.gradOn /\ Len(pixels) > 0
                         /\ FEq(GradDivisor(paint.grad), F(0))])

\* what one call of drawPolygon does: the image after it, the pixel reads and
\* writes in order, the number of intersections of each scanline visited, and
\* whether the division computing t ran with a zero divisor
drawPolygon(img, vertices, paint) ==
  IF TooFewVertices(vertices) THEN NoDraw(img)
  ELSE With(BuildEdges(vertices),
            LAMBDA edges :
              With(Scanlines(edges, GlobalMinY(edges), GlobalMaxY(edges)),
                   LAMBDA rows : DrawRows(img, rows, paint)))

createRect(x, y, w, h) ==
  <<<<2 * x, 2 * y>>, <<2 * (x + w), 2 * y>>, <<2 * (x + w), 2 * (y + h)>>,
    <<2 * x, 2 * (y + h)>>>>

(***************************************************************************)
(* State.                                                                  *)
(*   image      the canvas, a pixel <<x, y>> to its RGBA                    *)
(*   vertices, paint   the arguments of the drawPolygon calls               *)
(*   pc         "ready", "drawn" (one call made), "redrawn" (the same call  *)
(*              made a second time); "gradient" while a Gradient is built   *)
(*   before, once      the image before the first call and after it         *)
(*   reads, writes, nodeCounts, divZero   what the last call did            *)
(*   stops      the stops of the Gradient under construction                *)
(*   added      the bag of stops passed to addStop so far                   *)
(*   sampleT, sampled  the argument and result of the last getColorAt       *)
(***************************************************************************)
VARIABLES image, vertices, paint, pc, before, once, reads, writes, nodeCounts,
          divZero, stops, added, sampleT, sampled

vars == <<image, vertices, paint, pc, before, once, reads, writes, nodeCounts,
          divZero, stops, added, sampleT, sampled>>

(***************************************************************************)
(* Inputs.                                                                 *)
(***************************************************************************)
White == RGBA(255, 255, 255, 255)
Black == RGBA(0, 0, 0, 255)
ClearImage(bg) == [p \in Pixels |-> bg]
Checkerboard == [p \in Pixels |-> IF (p[1] + p[2]) % 2 = 0 THEN Black ELSE White]
Images == {ClearImage(White), ClearImage(Black), Checkerboard}

Red == ColorF(F(1), F(0), F(0), F(1))
Azure == ColorF(F(0), <<1, 2>>, F(1), F(1))
Amber == ColorF(F(1), <<1, 2>>, F(0), <<1, 2>>)
Clear == ColorF(F(0), F(0), F(0), F(0))
OpaqueColors == {Red, Azure}
Colors == {Red, Amber, Clear}

\* pixel coordinates from one left of / above the canvas to one beyond it
Xs == -1..(Width + 1)
Ys == -1..(Height + 1)
IntPoints == {<<2 * x, 2 * y>> : x \in Xs, y \in Ys}
\* vertices off the pixel grid (among them negative ones, which truncate to 0)
\* and two on it
FracPoints ==
  {<<-1, -1>>, <<1, 1>>, <<3, 1>>, <<1, 3>>, <<2 * Width + 1, 2 * Height - 1>>,
   <<0, 0>>, <<2 * Width, 2 * Height>>}
\* a coarser grid for the polygons of more than MinVerts vertices
CoarsePoints == {<<2 * x, 2 * y>> : x \in {-1, 1, Width}, y \in {-1, 1, Height + 1}}
\* and one for the calls that vary the paint
PaintPoints == {<<2 * x, 2 * y>> : x \in {-1, 1, Width + 1}, y \in {-1, 0, Height + 1}}

Polygons ==
  [1..MinVerts -> IntPoints] \cup [1..MinVerts -> FracPoints]
  \cup UNION {[1..n -> CoarsePoints] : n \in (MinVerts + 1)..MaxVerts}

NoGradient == [isRadial |-> FALSE, p1 |-> <<0, 0>>, p2 |-> <<0, 0>>, radius |-> F(0)]

SolidPaint(c, mode) ==
  [color |-> c, gradOn |-> FALSE, grad |-> NoGradient, stops |-> <<>>, mode |-> mode]

GradientPaint(g, st, mode) ==
  [color |-> Clear, gradOn |-> TRUE, grad |-> g, stops |-> st, mode |-> mode]

\* linear and radial gradients, one of each with a zero divisor
Gradients ==
  {[isRadial |-> FALSE, p1 |-> <<0, 0>>, p2 |-> <<2 * Width, 0>>, radius |-> F(0)],
   [isRadial |-> FALSE, p1 |-> <<2, 2>>, p2 |-> <<2, 2>>, radius |-> F(0)],
   [isRadial |-> TRUE, p1 |-> <<2, 2>>, p2 |-> <<0, 0>>, radius |-> F(2)],
   [isRadial |-> TRUE, p1 |-> <<2, 2>>, p2 |-> <<0, 0>>, radius |-> F(0)]}

\* stops lists as addStop leaves them
StopLists ==
  {<<>>,
   <<GradientStop(F(0), Azure), GradientStop(<<1, 2>>, Red), GradientStop(F(1), Amber)>>}

Paints ==
  {SolidPaint(c, m) : c \in Colors, m \in BlendModes}
  \cup {GradientPaint(g, st, m) : g \in Gradients, st \in StopLists, m \in BlendModes}

StopPositions == {<<-1, 2>>, F(0), <<1, 2>>, F(1)}
StopColors == {Red, Azure, Amber}
SampleTs == StopPositions \cup {F(-1), <<1, 4>>, <<3, 4>>, F(2), NaN}

(***************************************************************************)
(* Actions.                                                                *)
(***************************************************************************)
\* drawPolygon(image, vertices, color, grad, blendMode)
Draw ==
  /\ pc = "ready"
  /\ \E r \in {drawPolygon(image, vertices, paint)} :
       /\ image' = r.image
       /\ once' = r.image
       /\ reads' = r.reads
       /\ writes' = r.writes
       /\ nodeCounts' = r.nodeCounts
       /\ divZero' = r.divZero
  /\ pc' = "drawn"
  /\ UNCHANGED <<vertices, paint, before, stops, added, sampleT, sampled>>

\* the same call once more, on the image the first call left
Redraw ==
  /\ pc = "drawn"
  /\ \E r \in {drawPolygon(image, vertices, paint)} :
       /\ image' = r.image
       /\ reads' = r.reads
       /\ writes' = r.writes
       /\ nodeCounts' = r.nodeCounts
       /\ divZero' = r.divZero
  /\ pc' = "redrawn"
  /\ UNCHANGED <<vertices, paint, before, once, stops, added, sampleT, sampled>>

NextDraw == Draw \/ Redraw

InitDraw ==
  /\ before = image
  /\ once = image
  /\ pc = "ready"
  /\ reads = <<>>
  /\ writes = <<>>
  /\ nodeCounts = <<>>
  /\ divZero = FALSE
  /\ stops = paint.stops
  /\ added = EmptyBag
  /\ sampleT = NaN
  /\ sampled = Clear

\* one opaque solid fill of an arbitrary polygon
InitFill ==
  /\ vertices \in Polygons
  /\ paint = SolidPaint(Azure, BLEND_NORMAL)
  /\ image = Checkerboard
  /\ InitDraw

SpecFill == InitFill /\ [][Draw]_vars

\* the same opaque solid fill of a triangle or a quadrilateral, twice
InitTwice ==
  /\ vertices \in [1..MinVerts -> IntPoints] \cup [1..(MinVerts + 1) -> CoarsePoints]
  /\ \E scene \in {<<Azure, ClearImage(White)>>, <<Red, Checkerboard>>} :
       /\ paint = SolidPaint(scene[1], BLEND_NORMAL)
       /\ image = scene[2]
  /\ InitDraw

SpecTwice == InitTwice /\ [][NextDraw]_vars

\* opaque solid fills of the rectangles createRect makes
InitRect ==
  /\ \E x \in Xs, y \in Ys, w \in 0..MaxSide, h \in 0..MaxSide :
       vertices = createRect(x, y, w, h)
  /\ paint \in {SolidPaint(c, BLEND_NORMAL) : c \in OpaqueColors}
  /\ image \in Images
  /\ InitDraw

SpecRect == InitRect /\ [][Draw]_vars

\* every paint, on vertex lists of up to MinVerts vertices
InitPaint ==
  /\ vertices \in UNION {[1..n -> PaintPoints] : n \in 0..MinVerts}
  /\ paint \in Paints
  /\ image \in {ClearImage(White), Checkerboard}
  /\ InitDraw

SpecPaint == InitPaint /\ [][Draw]_vars

(***************************************************************************)
(* Building and sampling a Gradient.                                       *)
(***************************************************************************)
\* grad.addStop(pos, col)
AddStop(pos, col) ==
  /\ pc \in {"gradient", "sampled"}
  /\ Len(stops) < MaxStops
  /\ stops' \in addStop(stops, pos, col)
  /\ added' = added (+) SetToBag({GradientStop(pos, col)})
  /\ pc' = "gradient"
  /\ UNCHANGED <<image, vertices, paint, before, once, reads, writes, nodeCounts,
                 divZero, sampleT, sampled>>

\* grad.getColorAt(t)
Sample(t) ==
  /\ pc \in {"gradient", "sampled"}
  /\ sampleT' = t
  /\ sampled' = getColorAt(stops, t)
  /\ pc' = "sampled"
  /\ UNCHANGED <<image, vertices, paint, before, once, reads, writes, nodeCounts,
                 divZero, stops, added>>

NextGrad ==
  \/ \E pos \in StopPositions, col \in StopColors : AddStop(pos, col)
  \/ \E t \in SampleTs : Sample(t)

InitGrad ==
  /\ stops = <<>>
  /\ added = EmptyBag
  /\ sampleT = NaN
  /\ sampled = Clear
  /\ pc = "gradient"
  /\ image = ClearImage(White)
  /\ before = image
  /\ once = image
  /\ vertices = <<>>
  /\ paint = SolidPaint(Clear, BLEND_NORMAL)
  /\ reads = <<>>
  /\ writes = <<>>
  /\ nodeCounts = <<>>
  /\ divZero = FALSE

SpecGrad == InitGrad /\ [][NextGrad]_vars

(***************************************************************************)
(* Properties.                                                             *)
(***************************************************************************)
Written == {<<writes[k][1], writes[k][2]>> : k \in 1..Len(writes)}
OpaqueNormalFill ==
  ~paint.gradOn /\ FEq(paint.color.a, F(1)) /\ paint.mode = BLEND_NORMAL

\* the rectangle createRect was given, read back from the vertex list
RectX == vertices[1][1] \div 2
RectY == vertices[1][2] \div 2
RectW == (vertices[2][1] - vertices[1][1]) \div 2
RectH == (vertices[3][2] - vertices[1][2]) \div 2
InRect(p) ==
  RectX <= p[1] /\ p[1] < RectX + RectW /\ RectY <= p[2] /\ p[2] < RectY + RectH

\* C1: one opaque Normal fill of the rectangle (x, y, w, h) with integer corners
\* writes exactly the canvas pixels of [x, x+w) x [y, y+h), sets them to the
\* colour, and leaves every other pixel as it was; (x+w, y+h) is not written.
C1_RectCoverage ==
  (pc = "drawn" /\ OpaqueNormalFill) =>
    /\ Written = {p \in Pixels : InRect(p)}
    /\ \A p \in Pixels :
         image[p] = IF InRect(p) THEN toRGBA(paint.color) ELSE before[p]
    /\ <<RectX + RectW, RectY + RectH>> \notin Written

\* a rectangle inside the canvas whose far corner (x+w, y+h) is a canvas pixel too
C1_Witness ==
  /\ pc = "drawn" /\ OpaqueNormalFill
  /\ RectW > 0 /\ RectH > 0 /\ RectX >= 0 /\ RectY >= 0
  /\ <<RectX + RectW, RectY + RectH>> \in Pixels
  /\ image[<<RectX, RectY>>] = toRGBA(paint.color)
  /\ image[<<RectX, RectY>>] # before[<<RectX, RectY>>]

ColorEq(c1, c2) ==
  FEq(c1.r, c2.r) /\ FEq(c1.g, c2.g) /\ FEq(c1.b, c2.b) /\ FEq(c1.a, c2.a)
DistinctPositions ==
  \A i, j \in 1..Len(stops) : i # j => ~FEq(stops[i].position, stops[j].position)

\* C2 as claimed: for each stop s of any stops list addStop built, stops of
\* equal position included, getColorAt(s.position) returns s.color.
C2_StopExact_Original ==
  pc = "sampled" =>
    \A i \in 1..Len(stops) :
      FEq(sampleT, stops[i].position) => ColorEq(sampled, stops[i].color)

\* C2 amended: when the positions of the stops are pairwise distinct,
\* getColorAt(s.position) returns s.color for each stop s.
C2_StopExact ==
  (pc = "sampled" /\ DistinctPositions) =>
    \A i \in 1..Len(stops) :
      FEq(sampleT, stops[i].position) => ColorEq(sampled, stops[i].color)

\* an interior stop of three, of a colour unlike its neighbours', sampled
\* through the interpolation branch
C2_Witness ==
  /\ pc = "sampled" /\ DistinctPositions /\ Len(stops) = 3
  /\ FEq(sampleT, stops[2].position)
  /\ ~ColorEq(stops[1].color, stops[2].color)
  /\ ColorEq(sampled, stops[2].color)

\* C3: no drawPolygon call with a gradient executes the division computing t
\* with a zero divisor (|p2 - p1|^2 of a linear gradient, radius of a radial one).
C3_NoZeroDivisor == ~divZero

\* C4: a call with fewer than 3 vertices leaves every pixel unchanged and
\* performs no pixel read or write (it visits no scanline), whatever the paint.
C4_TooFewVertices ==
  (pc = "drawn" /\ Len(vertices) < 3) =>
    /\ image = before
    /\ reads = <<>>
    /\ writes = <<>>
    /\ nodeCounts = <<>>

\* two vertices on different scanlines of the canvas, painted with a gradient
C4_Witness ==
  /\ pc = "drawn" /\ Len(vertices) = 2 /\ paint.gradOn
  /\ paint.mode = BLEND_OVERLAY
  /\ vertices[1][2] = 0 /\ vertices[2][2] > 2
  /\ image = before

SeqToBag(s) ==
  [e \in {s[i] : i \in 1..Len(s)} |-> Cardinality({i \in 1..Len(s) : s[i] = e})]

\* C5: after any sequence of addStop calls from the empty list, stops is sorted
\* by position in non-decreasing order and holds exactly the multiset of
\* (position, color) pairs added.
C5_SortedStops ==
  pc \in {"gradient", "sampled"} =>
    /\ \A i \in 1..(Len(stops) - 1) : FLe(stops[i].position, stops[i + 1].position)
    /\ SeqToBag(stops) = added

\* three stops added in an order that is not the sorted one, two of them at one
\* position, one outside [0, 1], then sampled
C5_Witness ==
  /\ pc = "sampled" /\ Len(stops) = 3
  /\ FLt(stops[1].position, F(0))
  /\ FEq(stops[2].position, stops[3].position)
  /\ stops[2].color # stops[3].color
  /\ BagCardinality(added) = 3

\* C6: the same opaque Normal fill made twice leaves the image the first call left.
C6_Idempotent ==
  (pc = "redrawn" /\ OpaqueNormalFill) => image = once

\* the second call wrote pixels the first one had changed
C6_Witness ==
  /\ pc = "redrawn" /\ OpaqueNormalFill
  /\ Len(writes) > 1
  /\ once # before
  /\ image = once

\* C7: within one call the y of successive writes never decreases, and within a
\* span the x of successive writes strictly increases.
C7_ScanlineOrder ==
  \A k \in 1..(Len(writes) - 1) :
    /\ writes[k][2] <= writes[k + 1][2]
    /\ (writes[k][2] = writes[k + 1][2] /\ writes[k][3] = writes[k + 1][3])
         => writes[k][1] < writes[k + 1][1]

\* a call that wrote on two scanlines, two spans on one of them, one span at
\* least two pixels wide
C7_Witness ==
  /\ pc = "drawn"
  /\ \E k \in 1..(Len(writes) - 1) : writes[k][2] < writes[k + 1][2]
  /\ \E k \in 1..(Len(writes) - 1) :
       /\ writes[k][2] = writes[k + 1][2] /\ writes[k][3] = writes[k + 1][3]
       /\ writes[k][1] < writes[k + 1][1]
  /\ \E i, j \in 1..Len(writes) :
       writes[i][2] = writes[j][2] /\ writes[i][3] # writes[j][3]

IntegerVertices ==
  \A i \in 1..Len(vertices) : vertices[i][1] % 2 = 0 /\ vertices[i][2] % 2 = 0

\* edge e is active on scanline py and its truncated X intercept is <= px
LeftOf(e, px, py) ==
  /\ e.yMin <= py
  /\ py < e.yMax
  /\ Trunc(FAdd(e.x, FMul(e.mInv, F(py - e.yMin)))) <= px

\* the number of edges of the polygon with yMin <= py < yMax whose truncated X
\* intercept on scanline py is <= px
EdgesLeftOf(px, py) ==
  Cardinality({i \in 1..Len(vertices) :
                 /\ IntOf(vertices[i][2]) # IntOf(Successor(vertices, i)[2])
                 /\ With(EdgeOf(vertices, i), LAMBDA e : LeftOf(e, px, py))})

\* C8: for a polygon with integer vertices, a canvas pixel is written iff an odd
\* number of edges active on its scanline have their truncated X intercept at or
\* left of it, and a pixel of even count keeps its value.
C8_EvenOdd ==
  (pc = "drawn" /\ Len(vertices) >= 3 /\ IntegerVertices) =>
    \A p \in Pixels :
      With(EdgesLeftOf(p[1], p[2]),
           LAMBDA n : /\ (p \in Written) <=> (n % 2 = 1)
                      /\ (n % 2 = 0) => image[p] = before[p])

\* a polygon with four edges on one scanline: a pixel behind three of them is
\* written, one behind two of them is not
C8_Witness ==
  /\ pc = "drawn" /\ IntegerVertices
  /\ \E p, q \in Pixels :
       /\ EdgesLeftOf(p[1], p[2]) = 3 /\ p \in Written
       /\ EdgesLeftOf(q[1], q[2]) = 2 /\ q \notin Written
       /\ image[q] = before[q]

\* C9: every pixel read and write of a call is inside the canvas.
C9_InBounds ==
  /\ \A k \in 1..Len(reads) : InCanvas(reads[k][1], reads[k][2])
  /\ \A k \in 1..Len(writes) : InCanvas(writes[k][1], writes[k][2])

\* a gradient fill in Difference mode of a polygon with a vertex left of and
\* above the canvas and one beyond it, which wrote the last pixel of a row
C9_Witness ==
  /\ pc = "drawn" /\ paint.gradOn /\ paint.mode = BLEND_DIFFERENCE
  /\ \E i, j \in 1..Len(vertices) :
       /\ vertices[i][1] < 0 /\ vertices[i][2] < 0
       /\ vertices[j][1] > 2 * Width /\ vertices[j][2] > 2 * Height
  /\ \E k \in 1..Len(writes) : writes[k][1] = Width - 1

\* C10: on every scanline a call visits, the number of intersections collected
\* is even.
C10_EvenNodes ==
  \A k \in 1..Len(nodeCounts) : nodeCounts[k][2] % 2 = 0

\* a visited scanline that passes through a vertex where two edges join end to
\* end, one arriving from above and one leaving below
C10_Witness ==
  /\ pc = "drawn" /\ Len(vertices) >= 3 /\ Len(writes) > 0
  /\ \E k \in 1..Len(nodeCounts), i \in 1..Len(vertices) :
       /\ nodeCounts[k][2] >= 2
       /\ IntOf(Successor(vertices, i)[2]) = nodeCounts[k][1]
       /\ IntOf(vertices[i][2]) < nodeCounts[k][1]
       /\ IntOf(Successor(vertices, (i % Len(vertices)) + 1)[2]) > nodeCounts[k][1]

====
